---- MODULE Spec2Model ----
(***************************************************************************)
(* Model of the AI News Warehouse summarization-and-indexing pipeline:     *)
(*   - src/summarize.py  NewsSummarizer (_chunk_text, _summarize_chunk,    *)
(*     _extract_key_insights, summarize_article, process_articles)         *)
(*   - src/api.py        receive_raw_news, receive_summary,                *)
(*     query_summaries                                                     *)
(*                                                                         *)
(* Python strings are sequences of one-character strings.  Estimated token *)
(* costs are kept in tenths of a token (1.3 * len  ==  13 * len tenths),   *)
(* so that the float comparison of the source is an integer comparison.    *)
(* For an integer max_length the two agree whenever 13 * L # 10 *          *)
(* max_length for every reachable character count L, which is the case for *)
(* 1024 and for every budget below 13.                                     *)
(***************************************************************************)
EXTENDS Integers, Sequences, FiniteSets, TLC

VARIABLES
    \* _chunk_text called on its own
    text, max_length, chunks, pc,
    \* NewsSummarizer.process_articles
    hf_api_url, articles, idx, last, processed,
    \* api.py: relational store, vector index, last response
    rows, nextId, collections, vector, request, response, partial

chunkVars == <<text, max_length, chunks, pc>>
sumVars == <<hf_api_url, articles, idx, last, processed>>
apiVars == <<rows, nextId, collections, vector, request, response, partial>>
vars == <<text, max_length, chunks, pc, hf_api_url, articles, idx, last, processed,
          rows, nextId, collections, vector, request, response, partial>>

----------------------------------------------------------------------------
(* Bounds *)

\* longest text handed to _chunk_text in SpecChunk
MaxTextLen == 5
\* largest max_length handed to _chunk_text in SpecChunk
MaxBudget == 4
\* longest batch handed to process_articles in SpecSum
MaxBatch == 2
\* number of ids the news_summaries id sequence hands out in Spec
MaxArticles == 2
\* length of a word whose cost alone exceeds DefaultMaxLength
HugeWordLen == 788

----------------------------------------------------------------------------
(* Python string primitives *)

Space == <<" ">>
Chars == {"a", "b", " ", "\n"}
Whitespace == {" ", "\n"}

\* k-th smallest element of a finite set of integers
Kth(S, k) == CHOOSE i \in S : Cardinality({j \in S : j < i}) = k - 1

\* str.split() without arguments: the maximal runs of non-whitespace, in order
Split(s) ==
    LET starts == {i \in 1..Len(s) :
                     s[i] \notin Whitespace /\ (i = 1 \/ s[i-1] \in Whitespace)}
        ends == {i \in 1..Len(s) :
                     s[i] \notin Whitespace /\ (i = Len(s) \/ s[i+1] \in Whitespace)}
    IN [k \in 1..Cardinality(starts) |-> SubSeq(s, Kth(starts, k), Kth(ends, k))]

\* sep.join(xs)
RECURSIVE Join(_, _)
Join(sep, xs) ==
    IF xs = <<>> THEN <<>>
    ELSE IF Len(xs) = 1 THEN xs[1]
    ELSE xs[1] \o sep \o Join(sep, Tail(xs))

\* str.strip(): leading and trailing whitespace removed
Strip(s) ==
    LET keep == {i \in 1..Len(s) : s[i] \notin Whitespace}
    IN IF keep = {} THEN <<>>
       ELSE SubSeq(s, Kth(keep, 1), Kth(keep, Cardinality(keep)))

----------------------------------------------------------------------------
(* NewsSummarizer._chunk_text *)

\* len(word) * 1.3, in tenths of a token
WordCost(word) == 13 * Len(word)

\* faulty variant of ChunkStep: the running length is reset to 0 when a chunk
\* is closed, so the word that opens the new chunk is not counted
ChunkStepNoCarry(st, word, max) ==
    IF st.current_length + WordCost(word) > 10 * max
    THEN [chunks |-> Append(st.chunks, Join(Space, st.current_chunk)),
          current_chunk |-> <<word>>,
          current_length |-> 0]
    ELSE [chunks |-> st.chunks,
          current_chunk |-> Append(st.current_chunk, word),
          current_length |-> st.current_length + WordCost(word)]

\* one iteration of the loop over words
ChunkStep(st, word, max) ==
    IF st.current_length + WordCost(word) > 10 * max
    THEN [chunks |-> Append(st.chunks, Join(Space, st.current_chunk)),
          current_chunk |-> <<word>>,
          current_length |-> WordCost(word)]
    ELSE [chunks |-> st.chunks,
          current_chunk |-> Append(st.current_chunk, word),
          current_length |-> st.current_length + WordCost(word)]

RECURSIVE ChunkLoop(_, _, _)
ChunkLoop(st, words, max) ==
    IF words = <<>> THEN st
    ELSE ChunkLoop(ChunkStep(st, Head(words), max), Tail(words), max)

\* faulty variant of chunk_text: the trailing
\* "if current_chunk: chunks.append(...)" is missing
chunk_text_no_flush(t, max) ==
    ChunkLoop([chunks |-> <<>>, current_chunk |-> <<>>, current_length |-> 0],
              Split(t), max).chunks

chunk_text(t, max) ==
    LET st == ChunkLoop([chunks |-> <<>>, current_chunk |-> <<>>,
                         current_length |-> 0], Split(t), max)
    IN IF st.current_chunk # <<>>
       THEN Append(st.chunks, Join(Space, st.current_chunk))
       ELSE st.chunks

----------------------------------------------------------------------------
(* SpecChunk: _chunk_text applied to every bounded text and budget *)

RECURSIVE SeqsUpTo(_, _)
SeqsUpTo(S, n) ==
    IF n = 0 THEN {<<>>}
    ELSE LET shorter == SeqsUpTo(S, n - 1)
         IN shorter \cup {Append(s, c) : s \in {x \in shorter : Len(x) = n - 1}, c \in S}

Texts == SeqsUpTo(Chars, MaxTextLen)

IdleChunk ==
    /\ text = <<>> /\ max_length = 0 /\ chunks = <<>> /\ pc = "idle"
IdleSum ==
    /\ hf_api_url = "unset" /\ articles = <<>> /\ idx = 0
    /\ last = [outcome |-> "none"] /\ processed = <<>>
IdleApi ==
    /\ rows = <<>> /\ nextId = 1 /\ collections = {} /\ vector = <<>>
    /\ request = [op |-> "none"] /\ response = [op |-> "none"] /\ partial = {}

InitChunk ==
    /\ text \in Texts
    /\ max_length \in 1..MaxBudget
    /\ chunks = <<>>
    /\ pc = "call"
    /\ IdleSum /\ IdleApi

ChunkText ==
    /\ pc = "call"
    /\ chunks' = chunk_text(text, max_length)
    /\ pc' = "return"
    /\ UNCHANGED <<text, max_length>>
    /\ UNCHANGED sumVars /\ UNCHANGED apiVars

NextChunk == ChunkText

SpecChunk == InitChunk /\ [][NextChunk]_vars

----------------------------------------------------------------------------
(* NewsSummarizer: _summarize_chunk, _extract_key_insights,                *)
(* summarize_article, process_articles                                     *)

\* default of _chunk_text's max_length, the value summarize_article uses
DefaultMaxLength == 1024

\* str.split(sep) for a one-character separator: the pieces between the
\* separators, empty pieces included
SplitOn(s, sep) ==
    LET cuts == {i \in 1..Len(s) : s[i] = sep}
        n == Cardinality(cuts)
        lo(k) == IF k = 1 THEN 1 ELSE Kth(cuts, k - 1) + 1
        hi(k) == IF k = n + 1 THEN Len(s) ELSE Kth(cuts, k) - 1
    IN [k \in 1..(n + 1) |-> SubSeq(s, lo(k), hi(k))]

RECURSIVE StripNonEmpty(_)
\* [x.strip() for x in xs if x.strip()]
StripNonEmpty(xs) ==
    IF xs = <<>> THEN <<>>
    ELSE IF Strip(Head(xs)) = <<>> THEN StripNonEmpty(Tail(xs))
    ELSE <<Strip(Head(xs))>> \o StripNonEmpty(Tail(xs))

\* An outcome of requests.post(self.hf_api_url, ...): the request raises or
\* answers a non-2xx status (ok = FALSE), or answers [{"summary_text": t}].
HfResponse(okFlag, t) == [ok |-> okFlag, summary_text |-> t]
HfFailure == HfResponse(FALSE, <<>>)
ChunkResponses ==
    {HfFailure, HfResponse(TRUE, <<"x">>), HfResponse(TRUE, <<" ", "y", "\n">>)}
InsightResponses ==
    {HfFailure, HfResponse(TRUE, <<>>),
     HfResponse(TRUE, <<"i", "\n", " ", "\n", " ", "j", " ">>)}

\* __init__ assigns config, api_url and headers but not hf_api_url: reading
\* self.hf_api_url raises AttributeError inside the try block unless the
\* attribute was assigned on the instance after construction.
RequestMade(hf) == hf = "set"

\* the value _summarize_chunk returns for one chunk
summarize_chunk(hf, resp) ==
    IF RequestMade(hf) /\ resp.ok THEN Strip(resp.summary_text) ELSE <<>>

InsightPrefix ==
    <<"E", "x", "t", "r", "a", "c", "t", " ", "3", "-", "5", " ", "k",
       "e", "y", " ", "i", "n", "s", "i", "g", "h", "t", "s", " ", "f",
       "r", "o", "m", " ", "t", "h", "i", "s", " ", "t", "e", "x", "t",
       ":", " ">>

\* the value _extract_key_insights returns
extract_key_insights(hf, resp) ==
    IF RequestMade(hf) /\ resp.ok
    THEN StripNonEmpty(SplitOn(Strip(resp.summary_text), "\n"))
    ELSE <<>>

\* An article dict: keys is the set of keys present.
Has(article, ks) == ks \subseteq article.keys

FullText(article) == article.title \o <<"\n", "\n">> \o article.content

\* the chunks summarize_article computes (none when title or content is missing)
ArticleChunks(article) ==
    IF Has(article, {"title", "content"})
    THEN chunk_text(FullText(article), DefaultMaxLength)
    ELSE <<>>

NoneResult == [is_none |-> TRUE, summary |-> <<>>, insights |-> <<>>]

\* faulty variant: an insight call that fails makes the article fail
summarize_article_insights_fatal(article, cks, hf, resps, iresp) ==
    IF ~Has(article, {"title", "content"})
    THEN [result |-> NoneResult, chunked |-> FALSE, chunk_summaries |-> <<>>,
          chunk_requests |-> 0, insight_prompts |-> <<>>,
          insight_calls |-> 0, insight_failed |-> FALSE]
    ELSE LET chunk_summaries == [k \in 1..Len(cks) |-> summarize_chunk(hf, resps[k])]
             combined_summary == Join(Space, chunk_summaries)
             insights == extract_key_insights(hf, iresp)
         IN [result |-> IF Has(article, {"source", "topic"})
                           /\ RequestMade(hf) /\ iresp.ok
                        THEN [is_none |-> FALSE, summary |-> combined_summary,
                              insights |-> insights]
                        ELSE NoneResult,
             chunked |-> TRUE,
             chunk_summaries |-> chunk_summaries,
             chunk_requests |-> IF RequestMade(hf) THEN Len(cks) ELSE 0,
             insight_prompts |-> IF RequestMade(hf)
                                 THEN <<InsightPrefix \o FullText(article)>>
                                 ELSE <<>>,
             insight_calls |-> 1,
             insight_failed |-> ~(RequestMade(hf) /\ iresp.ok)]

\* summarize_article.  cks is the value of self._chunk_text(full_text)
\* (ArticleChunks, evaluated once by the caller), resps[k] the outcome of the
\* k-th chunk's request and iresp the outcome of the insight request.
\* Returns the result (None on an exception), the number of chunk requests
\* posted, the insight prompts posted, the number of calls of
\* _extract_key_insights and whether that call ended in its except clause.
summarize_article(article, cks, hf, resps, iresp) ==
    IF ~Has(article, {"title", "content"})
    THEN [result |-> NoneResult, chunked |-> FALSE, chunk_summaries |-> <<>>,
          chunk_requests |-> 0, insight_prompts |-> <<>>,
          insight_calls |-> 0, insight_failed |-> FALSE]
    ELSE LET chunk_summaries == [k \in 1..Len(cks) |-> summarize_chunk(hf, resps[k])]
             combined_summary == Join(Space, chunk_summaries)
             insights == extract_key_insights(hf, iresp)
         IN [result |-> IF Has(article, {"source", "topic"})
                        THEN [is_none |-> FALSE, summary |-> combined_summary,
                              insights |-> insights]
                        ELSE NoneResult,
             chunked |-> TRUE,
             chunk_summaries |-> chunk_summaries,
             chunk_requests |-> IF RequestMade(hf) THEN Len(cks) ELSE 0,
             insight_prompts |-> IF RequestMade(hf)
                                 THEN <<InsightPrefix \o FullText(article)>>
                                 ELSE <<>>,
             insight_calls |-> 1,
             insight_failed |-> ~(RequestMade(hf) /\ iresp.ok)]

\* "if not result": None is falsy, a dict with keys is truthy
Falsy(result) == result.is_none

\* whether process_articles reaches requests.post for the article, given the
\* value r that summarize_article returned
PostsSummary(article, r) == ~Falsy(r.result) /\ Has(article, {"id"})

\* the except clause of the loop body: it formats article['title'] into the
\* message, so the iteration ends handled ("error") when the key is there and
\* with a KeyError leaving process_articles ("raised") when it is not
except_handler(article) ==
    IF Has(article, {"title"}) THEN "error" ELSE "raised"

\* faulty variant: the loop body without its try/except
process_one_unguarded(article, r, postOk) ==
    IF Falsy(r.result)
    THEN [outcome |-> "skipped", call |-> r, sent |-> <<>>]
    ELSE IF ~Has(article, {"id"})
    THEN [outcome |-> "raised", call |-> r, sent |-> <<>>]
    ELSE [outcome |-> IF postOk THEN "ok" ELSE "raised",
          call |-> r,
          sent |-> <<[news_id |-> article.id, summary |-> r.result.summary]>>]

\* One iteration of the loop of process_articles, given the value r that
\* summarize_article returned.  postOk is whether the summary-attach request
\* returned a 2xx status (raise_for_status passes).
process_one(article, r, postOk) ==
    IF Falsy(r.result)
    THEN [outcome |-> "skipped", call |-> r, sent |-> <<>>]
    ELSE IF ~Has(article, {"id"})
    THEN [outcome |-> except_handler(article), call |-> r, sent |-> <<>>]
    ELSE [outcome |-> IF postOk THEN "ok" ELSE except_handler(article),
          call |-> r,
          sent |-> <<[news_id |-> article.id, summary |-> r.result.summary]>>]

----------------------------------------------------------------------------
(* SpecSum: process_articles on every bounded batch *)

Rep(c, n) == [i \in 1..n |-> c]
HugeWord == Rep("b", HugeWordLen)

AllKeys == {"id", "title", "content", "source", "topic"}
Article(ks, t, c) ==
    [keys |-> ks, id |-> 1, title |-> t, content |-> c,
     source |-> <<"s">>, topic |-> <<"p">>]

\* Complete articles (one of three chunks "t", HugeWord, "c"; ones with an
\* empty or whitespace-only title or content) and articles with a key missing.
ArticleUniverse ==
    {Article(AllKeys, <<"t">>, HugeWord \o <<"\n", "c">>),
     Article(AllKeys, <<"t">>, <<"c">>),
     Article(AllKeys, <<>>, <<"c">>),
     Article(AllKeys, <<"t">>, <<" ">>),
     Article(AllKeys, <<>>, <<>>)}
    \cup {Article(AllKeys \ {k}, <<"t">>, <<"c">>) : k \in {"id", "title", "source"}}

Batches == UNION {[1..n -> ArticleUniverse] : n \in 1..MaxBatch}

InitSum ==
    /\ hf_api_url \in {"unset", "set"}
    /\ articles \in Batches
    /\ idx = 1
    /\ last = [outcome |-> "none"]
    /\ processed = <<>>
    /\ IdleChunk /\ IdleApi

\* the outcomes the requests of one summarize_article call can have: one per
\* request actually posted
ChunkOutcomes(article, cks) ==
    [1..Len(cks) -> IF RequestMade(hf_api_url) THEN ChunkResponses ELSE {HfFailure}]
InsightOutcomes(article) ==
    IF RequestMade(hf_api_url) /\ Has(article, {"title", "content"})
    THEN InsightResponses ELSE {HfFailure}

\* an exception left process_articles: the for loop is over
Aborted == processed # <<>> /\ processed[Len(processed)].outcome = "raised"

\* process_articles waits in a requests.post call that is never answered
Blocked == last.outcome = "blocked"

\* the requests.post calls the processing of one article makes, by the
\* function that makes them: one per chunk and one for the insights when
\* hf_api_url is there to be read, and the summary-attach request when a
\* result was produced and the article has an id
RequestSites(article, hf, cks) ==
    {site \in {"_summarize_chunk", "_extract_key_insights", "process_articles"} :
        \/ /\ site = "_summarize_chunk"
           /\ RequestMade(hf) /\ Has(article, {"title", "content"}) /\ Len(cks) >= 1
        \/ /\ site = "_extract_key_insights"
           /\ RequestMade(hf) /\ Has(article, {"title", "content"})
        \/ /\ site = "process_articles"
           /\ Has(article, AllKeys)}

ProcessArticle ==
    /\ idx <= Len(articles)
    /\ ~Aborted /\ ~Blocked
    /\ \E cks \in {ArticleChunks(articles[idx])} :
       \E resps \in ChunkOutcomes(articles[idx], cks),
          iresp \in InsightOutcomes(articles[idx]) :
       \E r \in {summarize_article(articles[idx], cks, hf_api_url, resps, iresp)} :
       \E postOk \in IF PostsSummary(articles[idx], r) THEN BOOLEAN ELSE {FALSE} :
       \E step \in {process_one(articles[idx], r, postOk)} :
          /\ last' = [outcome |-> step.outcome, index |-> idx,
                      call |-> step.call, sent |-> step.sent]
          /\ processed' = Append(processed,
                                 [index |-> idx, outcome |-> step.outcome])
    /\ idx' = idx + 1
    /\ UNCHANGED <<hf_api_url, articles>>
    /\ UNCHANGED chunkVars /\ UNCHANGED apiVars

\* A request of the current article is sent and no answer ever comes.  None
\* of the three requests.post calls passes timeout=, and requests waits
\* without limit then: the call does not return and nothing after it runs.
BlockInRequest ==
    /\ idx <= Len(articles)
    /\ ~Aborted /\ ~Blocked
    /\ \E cks \in {ArticleChunks(articles[idx])} :
       \E site \in RequestSites(articles[idx], hf_api_url, cks) :
          last' = [outcome |-> "blocked", index |-> idx, site |-> site]
    /\ UNCHANGED <<hf_api_url, articles, idx, processed>>
    /\ UNCHANGED chunkVars /\ UNCHANGED apiVars

NextSum == ProcessArticle \/ BlockInRequest

SpecSum == InitSum /\ [][NextSum]_vars

----------------------------------------------------------------------------
(* api.py: the relational table news_summaries, the ChromaDB collection   *)
(* "news_summaries", and the handlers receive_raw_news, receive_summary,  *)
(* query_summaries                                                         *)

\* A nullable column value
Null == [null |-> TRUE, value |-> <<>>]
Some(v) == [null |-> FALSE, value |-> v]

Digits == <<"0", "1", "2", "3", "4", "5", "6", "7", "8", "9">>

\* str(n) for n >= 0: the decimal digits, most significant first
RECURSIVE ToStr(_)
ToStr(n) == IF n < 10 THEN <<Digits[n + 1]>>
            ELSE ToStr(n \div 10) \o <<Digits[(n % 10) + 1]>>

\* int(s) for a string of decimal digits
RECURSIVE ToInt(_)
ToInt(s) ==
    LET d == CHOOSE k \in 0..9 : Digits[k + 1] = s[Len(s)]
    IN IF Len(s) = 1 THEN d ELSE 10 * ToInt(SubSeq(s, 1, Len(s) - 1)) + d

\* Session.commit(): the pending state of the session becomes the stored one
Commit(stored, pending) == pending

\* faulty variant of Rollback: the table goes back to what the handler found,
\* undoing what the same call committed
RollbackUndoingCommit(stored, before) == before

\* Session.rollback(): pending changes are dropped, what was committed stays.
\* stored is the table as last committed, before the table as the handler
\* found it.
Rollback(stored, before) == stored

\* The calls of a handler that can raise; "none": no call raises.
RawFaults == {"none", "commit", "refresh"}
SummaryFaults == {"none", "query", "commit", "refresh", "get_or_create_collection", "add"}
\* for query_summaries: whether any of get_collection, collection.query or
\* the batch lookup raises
QueryFaults == {"none", "raise"}

\* NewsSummary(title, content, source, topic): summary is left NULL
NewRow(news) ==
    [title |-> news.title, content |-> news.content, source |-> news.source,
     topic |-> news.topic, summary |-> Null]

\* receive_raw_news.  idTaken: whether the failed INSERT consumed a value of
\* the id sequence (sequences are not rolled back).
receive_raw_news(db, seq, news, fault, idTaken) ==
    LET pending == [i \in DOMAIN db \cup {seq} |->
                       IF i = seq THEN NewRow(news) ELSE db[i]]
    IN IF fault = "commit"
       THEN [rows |-> Rollback(db, db), nextId |-> IF idTaken THEN seq + 1 ELSE seq,
             response |-> [op |-> "receive_raw_news", status |-> 500]]
       ELSE IF fault = "refresh"
       THEN [rows |-> Rollback(Commit(db, pending), db), nextId |-> seq + 1,
             response |-> [op |-> "receive_raw_news", status |-> 500]]
       ELSE [rows |-> Commit(db, pending), nextId |-> seq + 1,
             response |-> [op |-> "receive_raw_news", status |-> 200, id |-> seq]]

\* collection.add(documents=[doc], metadatas=[meta], ids=[id]): an id already
\* in the collection is not overwritten (add is not upsert)
CollectionAdd(vec, id, doc, meta) ==
    IF id \in DOMAIN vec THEN vec
    ELSE [k \in DOMAIN vec \cup {id} |->
             IF k = id THEN [document |-> doc, metadata |-> meta] ELSE vec[k]]

SummaryResponse(status, news_id) ==
    [op |-> "receive_summary", status |-> status, id |-> news_id]

\* faulty variant of receive_summary: the vector entry is written before the
\* relational commit is known to have succeeded
receive_summary_vector_first(db, colls, vec, news_id, summary, fault) ==
    IF fault = "query"
    THEN [rows |-> Rollback(db, db), collections |-> colls, vector |-> vec,
          committed |-> FALSE, response |-> SummaryResponse(500, news_id)]
    ELSE IF news_id \notin DOMAIN db
    THEN [rows |-> db, collections |-> colls, vector |-> vec,
          committed |-> FALSE, response |-> SummaryResponse(404, news_id)]
    ELSE
    LET pending == [db EXCEPT ![news_id].summary = Some(summary)]
        added == CollectionAdd(vec, ToStr(news_id), summary,
                     [id |-> ToStr(news_id), topic |-> db[news_id].topic])
    IN IF fault = "commit"
       THEN [rows |-> Rollback(db, db), collections |-> colls \cup {"news_summaries"},
             vector |-> added,
             committed |-> FALSE, response |-> SummaryResponse(500, news_id)]
       ELSE [rows |-> Commit(db, pending), collections |-> colls \cup {"news_summaries"},
             vector |-> added,
             committed |-> TRUE,
             response |-> SummaryResponse(IF fault = "none" THEN 200 ELSE 500, news_id)]

\* faulty variant of receive_summary: a failure of the ChromaDB calls is
\* swallowed and the call answers 200
receive_summary_swallow(db, colls, vec, news_id, summary, fault) ==
    IF fault = "query"
    THEN [rows |-> Rollback(db, db), collections |-> colls, vector |-> vec,
          committed |-> FALSE, response |-> SummaryResponse(500, news_id)]
    ELSE IF news_id \notin DOMAIN db
    THEN [rows |-> db, collections |-> colls, vector |-> vec,
          committed |-> FALSE, response |-> SummaryResponse(404, news_id)]
    ELSE
    LET pending == [db EXCEPT ![news_id].summary = Some(summary)]
    IN IF fault = "commit"
       THEN [rows |-> Rollback(db, db), collections |-> colls, vector |-> vec,
             committed |-> FALSE, response |-> SummaryResponse(500, news_id)]
       ELSE IF fault = "refresh"
       THEN [rows |-> Rollback(Commit(db, pending), db), collections |-> colls,
             vector |-> vec,
             committed |-> TRUE, response |-> SummaryResponse(500, news_id)]
       ELSE IF fault \in {"get_or_create_collection", "add"}
       THEN [rows |-> Commit(db, pending), collections |-> colls, vector |-> vec,
             committed |-> TRUE, response |-> SummaryResponse(200, news_id)]
       ELSE [rows |-> Commit(db, pending),
             collections |-> colls \cup {"news_summaries"},
             vector |-> CollectionAdd(vec, ToStr(news_id), summary,
                           [id |-> ToStr(news_id), topic |-> db[news_id].topic]),
             committed |-> TRUE, response |-> SummaryResponse(200, news_id)]

\* receive_summary.  fault names the first call that raises.  committed tells
\* whether db.commit() of this call succeeded.
receive_summary(db, colls, vec, news_id, summary, fault) ==
    IF fault = "query"
    THEN [rows |-> Rollback(db, db), collections |-> colls, vector |-> vec,
          committed |-> FALSE, response |-> SummaryResponse(500, news_id)]
    ELSE IF news_id \notin DOMAIN db
    THEN [rows |-> db, collections |-> colls, vector |-> vec,
          committed |-> FALSE, response |-> SummaryResponse(404, news_id)]
    ELSE
    LET pending == [db EXCEPT ![news_id].summary = Some(summary)]
    IN IF fault = "commit"
       THEN [rows |-> Rollback(db, db), collections |-> colls, vector |-> vec,
             committed |-> FALSE, response |-> SummaryResponse(500, news_id)]
       ELSE IF fault \in {"refresh", "get_or_create_collection"}
       THEN [rows |-> Rollback(Commit(db, pending), db), collections |-> colls,
             vector |-> vec,
             committed |-> TRUE, response |-> SummaryResponse(500, news_id)]
       ELSE IF fault = "add"
       THEN [rows |-> Rollback(Commit(db, pending), db),
             collections |-> colls \cup {"news_summaries"}, vector |-> vec,
             committed |-> TRUE, response |-> SummaryResponse(500, news_id)]
       ELSE [rows |-> Commit(db, pending),
             collections |-> colls \cup {"news_summaries"},
             vector |-> CollectionAdd(vec, ToStr(news_id), summary,
                           [id |-> ToStr(news_id), topic |-> db[news_id].topic]),
             committed |-> TRUE, response |-> SummaryResponse(200, news_id)]

\* all orderings without repetition of the elements of a finite set
RECURSIVE Orderings(_)
Orderings(S) ==
    IF S = {} THEN {<<>>}
    ELSE UNION {{<<x>> \o o : o \in Orderings(S \ {x})} : x \in S}

\* collection.query(query_texts=[query], n_results=n)['ids'][0]: the ids of at
\* most n entries, best first; which entries and in what order is the index's
\* similarity ranking
Rankings(vec, n) ==
    LET m == IF n < Cardinality(DOMAIN vec) THEN n ELSE Cardinality(DOMAIN vec)
    IN UNION {Orderings(S) : S \in {T \in SUBSET DOMAIN vec : Cardinality(T) = m}}

\* faulty variant: the batch lookup without its id filter
BatchLookupsUnfiltered(db, ids) == Orderings(DOMAIN db)

\* db.query(NewsSummary).filter(NewsSummary.id.in_(ids)).all(): the matching
\* rows, in an order the database chooses (the query has no ORDER BY)
BatchLookups(db, ids) ==
    Orderings({i \in DOMAIN db : \E k \in 1..Len(ids) : ids[k] = i})

\* the "results" list of query_summaries: one dict per row of summaries, in
\* the order of summaries
query_results(db, summary_ids, summaries) ==
    [k \in 1..Len(summaries) |->
        [id |-> summaries[k], title |-> db[summaries[k]].title,
         summary |-> db[summaries[k]].summary, topic |-> db[summaries[k]].topic]]

\* query_summaries.  ids is the ranking the index returned and summaries the
\* ids of the rows in the order the batch lookup yielded them.
query_summaries(db, colls, ids, summaries, fault) ==
    IF "news_summaries" \notin colls \/ fault # "none"
    THEN [op |-> "query_summaries", status |-> 500, results |-> <<>>]
    ELSE LET summary_ids == [k \in 1..Len(ids) |-> ToInt(ids[k])]
         IN [op |-> "query_summaries", status |-> 200,
             results |-> query_results(db, summary_ids, summaries)]

----------------------------------------------------------------------------
(* Spec: the API serving ingestion, summary-attach and query requests *)

\* request holds the last request served and the call of it that raised;
\* response the answer it got.
Summaries == {<<>>, <<"a">>}
\* the article posted when the id sequence stands at seq: consecutive articles
\* carry different topics
RawNews(seq) ==
    [title |-> <<"t">>, content |-> <<"c">>, source |-> <<"s">>,
     topic |-> IF seq % 2 = 1 THEN <<"p">> ELSE <<"q">>]

Init ==
    /\ rows = <<>>
    /\ nextId = 1
    /\ collections = {}
    /\ vector = <<>>
    /\ request = [op |-> "none"]
    /\ response = [op |-> "none"]
    /\ partial = {}
    /\ IdleChunk /\ IdleSum

ReceiveRawNews ==
    /\ nextId <= MaxArticles
    /\ \E news \in {RawNews(nextId)}, fault \in RawFaults, idTaken \in BOOLEAN :
          \E out \in {receive_raw_news(rows, nextId, news, fault, idTaken)} :
             /\ rows' = out.rows
             /\ nextId' = out.nextId
             /\ request' = [op |-> "receive_raw_news", fault |-> fault]
             /\ response' = out.response
    /\ UNCHANGED <<collections, vector, partial>>
    /\ UNCHANGED chunkVars /\ UNCHANGED sumVars

ReceiveSummary ==
    /\ \E news_id \in 1..MaxArticles, summary \in Summaries, fault \in SummaryFaults :
          \E out \in {receive_summary(rows, collections, vector, news_id, summary, fault)} :
             /\ rows' = out.rows
             /\ collections' = out.collections
             /\ vector' = out.vector
             /\ request' = [op |-> "receive_summary", news_id |-> news_id,
                             summary |-> summary, fault |-> fault]
             /\ response' = out.response
             \* history: ids for which a call failed after its commit
             /\ partial' = IF out.committed /\ out.response.status = 500
                           THEN partial \cup {news_id} ELSE partial
    /\ UNCHANGED nextId
    /\ UNCHANGED chunkVars /\ UNCHANGED sumVars

QuerySummaries ==
    /\ \E n_results \in 1..MaxArticles, fault \in QueryFaults :
       \E ids \in IF fault = "none" THEN Rankings(vector, n_results) ELSE {<<>>} :
       \E summaries \in BatchLookups(rows, [k \in 1..Len(ids) |-> ToInt(ids[k])]) :
          /\ request' = [op |-> "query_summaries", n_results |-> n_results,
                          ids |-> ids, fault |-> fault]
          /\ response' = query_summaries(rows, collections, ids, summaries, fault)
    /\ UNCHANGED <<rows, nextId, collections, vector, partial>>
    /\ UNCHANGED chunkVars /\ UNCHANGED sumVars

Next == ReceiveRawNews \/ ReceiveSummary \/ QuerySummaries

Spec == Init /\ [][Next]_vars

----------------------------------------------------------------------------
(* SpecQuery: query_summaries against the stores as a start-up finds them *)

\* The collection is persisted under persist_directory="chroma_db" and the
\* table lives in the database DATABASE_URL names: the two are found as they
\* were left, so the index may hold ids the table has no row for (and the
\* reverse).
StoredIds == 1..(MaxArticles + 1)
StoredRow(id) ==
    [title |-> <<"t">>, content |-> <<"c">>, source |-> <<"s">>,
     topic |-> RawNews(id).topic, summary |-> Some(<<"a">>)]
StoredEntry(id) ==
    [document |-> <<"a">>, metadata |-> [id |-> ToStr(id), topic |-> RawNews(id).topic]]

InitQuery ==
    /\ \E R \in SUBSET StoredIds : rows = [i \in R |-> StoredRow(i)]
    /\ nextId = MaxArticles + 2
    /\ \E V \in SUBSET StoredIds :
          /\ vector = [s \in {ToStr(i) : i \in V} |-> StoredEntry(ToInt(s))]
          /\ collections \in IF V = {} THEN {{}, {"news_summaries"}}
                                       ELSE {{"news_summaries"}}
    /\ request = [op |-> "none"]
    /\ response = [op |-> "none"]
    /\ partial = {}
    /\ IdleChunk /\ IdleSum

NextQuery == QuerySummaries

SpecQuery == InitQuery /\ [][NextQuery]_vars

----------------------------------------------------------------------------
(* Properties of the dual-store write and of retrieval (Spec) *)

HasSummary(id) == id \in DOMAIN rows /\ ~rows[id].summary.null
HasVectorEntry(id) == ToStr(id) \in DOMAIN vector

NoOrphanVectorEntry ==
    \A k \in DOMAIN vector : HasSummary(ToInt(k))

\* C1: the vector index changes only in a receive_summary call none of whose
\* calls raised, for a known article id, and the entry added is for the
\* summary that the same call committed; hence every vector entry id resolves
\* to a relational row that carries a summary.
C1_VectorOnlyAfterCommit ==
    /\ []NoOrphanVectorEntry
    /\ [][vector' # vector =>
            /\ request'.op = "receive_summary"
            /\ response'.status = 200
            /\ request'.news_id \in DOMAIN rows
            /\ rows'[request'.news_id].summary = Some(request'.summary)
            /\ DOMAIN vector' = DOMAIN vector \cup {ToStr(request'.news_id)}
            /\ vector'[ToStr(request'.news_id)].document = request'.summary]_vars

C1_Witness ==
    /\ request.op = "receive_summary" /\ request.fault = "commit"
    /\ request.news_id \in DOMAIN rows
    /\ ~HasVectorEntry(request.news_id)
    /\ \E id \in DOMAIN rows : HasVectorEntry(id)

\* the vector step of the last receive_summary call failed after its commit
VectorWriteFailed ==
    /\ request.op = "receive_summary"
    /\ request.fault \in {"get_or_create_collection", "add"}
    /\ request.news_id \in DOMAIN rows

\* C2: when the vector-index add of a receive_summary call fails after the
\* relational commit succeeded, the call answers an error (status 500, never
\* 200) and the row holds the summary the call committed.
C2_PartialWriteReported ==
    VectorWriteFailed =>
        /\ response.status = 500
        /\ rows[request.news_id].summary = Some(request.summary)

C2_Witness ==
    /\ VectorWriteFailed
    /\ request.summary # <<>>
    /\ ~HasVectorEntry(request.news_id)

\* C3 (as claimed): a vector entry with id str(article_id) exists if and only
\* if a summary is stored for that article_id.
C3_VectorIffSummary ==
    \A id \in DOMAIN rows : HasVectorEntry(id) <=> HasSummary(id)

\* C3 (amended): a vector entry exists only if a summary is stored for that
\* article_id, and a stored summary lacks its vector entry only for an id for
\* which a receive_summary call answered 500 after its commit.
C3_VectorIffSummaryUnlessReported ==
    \A id \in DOMAIN rows :
        /\ HasVectorEntry(id) => HasSummary(id)
        /\ (HasSummary(id) /\ ~HasVectorEntry(id)) => id \in partial

C3_Witness ==
    \E id, other \in DOMAIN rows :
        /\ HasSummary(id) /\ ~HasVectorEntry(id) /\ id \in partial
        /\ HasSummary(other) /\ HasVectorEntry(other)

\* the ids of the result records of the last query, in result order
ResultIds == [k \in 1..Len(response.results) |-> response.results[k].id]

\* the ids the index ranked, as integers, without those that have no row
SurvivingRanked ==
    SelectSeq([k \in 1..Len(request.ids) |-> ToInt(request.ids[k])],
              LAMBDA i : i \in DOMAIN rows)

\* C10: query_summaries returns the joined records in the similarity rank
\* order in which the vector index returned their ids, whatever order the
\* relational batch lookup yields the rows in.
C10_RankOrderPreserved ==
    (request.op = "query_summaries" /\ response.status = 200) =>
        ResultIds = SurvivingRanked

\* the ids the index ranked for the last query, as integers
RankedIds == {ToInt(request.ids[k]) : k \in 1..Len(request.ids)}

\* C11: an id the vector index returns that has no relational row is left
\* out of the result and does not make the search fail; the result holds
\* exactly one record per ranked id that has a row, so only ids the index
\* returned and at most n_results records.
C11_MissingRowsLeftOut ==
    request.op = "query_summaries" =>
        /\ (request.fault = "none" /\ "news_summaries" \in collections) =>
               response.status = 200
        /\ response.status = 200 =>
               /\ {ResultIds[k] : k \in 1..Len(ResultIds)} = RankedIds \cap DOMAIN rows
               /\ \A j, k \in 1..Len(ResultIds) : ResultIds[j] = ResultIds[k] => j = k
               /\ Len(response.results) <= request.n_results

\* a search answered with a record although one of the ranked ids has no row
C11_Witness ==
    /\ request.op = "query_summaries" /\ response.status = 200
    /\ RankedIds \ DOMAIN rows # {}
    /\ response.results # <<>>
\* C15: after any sequence of receive_summary calls, repeated calls for one
\* article id with different texts included, the text the vector entry with
\* id str(article_id) holds is the summary currently stored in the article's
\* row, and its metadata topic is the row's topic.
C15_VectorTextIsCurrentSummary ==
    \A id \in DOMAIN rows :
        HasVectorEntry(id) =>
            /\ ~rows[id].summary.null
            /\ vector[ToStr(id)].document = rows[id].summary.value
            /\ vector[ToStr(id)].metadata.topic = rows[id].topic

----------------------------------------------------------------------------
(* Properties of summarize_article and process_articles (SpecSum) *)

\* an article has just been processed
Processed == last.outcome \notin {"none", "blocked"}
LastArticle == articles[last.index]

\* the chunk requests of the last article were posted, one per chunk
ChunkRequestsPosted ==
    /\ Processed /\ hf_api_url = "set"
    /\ Has(LastArticle, AllKeys)
    /\ last.call.chunk_requests >= 1

FailedChunks == {k \in 1..Len(last.call.chunk_summaries) :
                    last.call.chunk_summaries[k] = <<>>}

\* C4: if every per-chunk summarization call for an article fails,
\* summarize_article produces no result and process_articles sends no summary
\* for it.
C4_AllChunksFailedIsFailed ==
    (ChunkRequestsPosted /\ FailedChunks = 1..Len(last.call.chunk_summaries)) =>
        /\ last.call.result.is_none
        /\ last.sent = <<>>

\* C5: if some but not all chunks of an article fail to summarize,
\* summarize_article returns a result whose summary is the successful chunk
\* summaries, in chunk order, joined by exactly one space each.
C5_PartialJoinSkipsFailed ==
    (/\ ChunkRequestsPosted
     /\ FailedChunks # {}
     /\ FailedChunks # 1..Len(last.call.chunk_summaries)) =>
        /\ ~last.call.result.is_none
        /\ last.call.result.summary =
              Join(Space, SelectSeq(last.call.chunk_summaries, LAMBDA c : c # <<>>))

\* C9: an article whose title or content is empty or whitespace-only ends
\* without a result, before any chunking or request, and nothing is sent.
C9_EmptyInputRejected ==
    (/\ Processed
     /\ Has(LastArticle, AllKeys)
     /\ (Strip(LastArticle.title) = <<>> \/ Strip(LastArticle.content) = <<>>)) =>
        /\ last.call.result.is_none
        /\ ~last.call.chunked
        /\ last.call.chunk_requests = 0
        /\ last.call.insight_prompts = <<>>
        /\ last.sent = <<>>

\* C13: a failure of the insight-extraction call never fails the article:
\* summarize_article calls the extractor exactly once, with the full
\* title + "\n\n" + content text (one prompt, built from that text, however
\* many chunks there are), and when the call fails the result is still
\* produced, with the combined summary of the chunk summaries and with
\* insights equal to the empty sequence.
C13_InsightFailureTolerated ==
    (Processed /\ Has(LastArticle, {"title", "content"})) =>
        /\ last.call.insight_calls = 1
        /\ RequestMade(hf_api_url) =>
               last.call.insight_prompts = <<InsightPrefix \o FullText(LastArticle)>>
        /\ (last.call.insight_failed /\ Has(LastArticle, {"source", "topic"})) =>
               /\ ~last.call.result.is_none
               /\ last.call.result.insights = <<>>
               /\ last.call.result.summary = Join(Space, last.call.chunk_summaries)

\* an article of several chunks whose chunk requests were answered, whose
\* insight request failed and whose summary was sent
C13_Witness ==
    /\ Processed /\ RequestMade(hf_api_url)
    /\ last.call.insight_failed
    /\ last.call.chunk_requests > 1
    /\ FailedChunks = {}
    /\ last.outcome = "ok"

\* C12: process_articles attempts every article of the batch once, in order:
\* the articles attempted so far are exactly the first idx - 1, each once and
\* in batch order, whatever their outcomes (no result, missing field, failed
\* summary-attach request); none ended with an exception leaving
\* process_articles, and the loop stands at the next article.
C12_FailureConfined ==
    /\ Len(processed) = idx - 1
    /\ idx <= Len(articles) + 1
    /\ \A k \in 1..Len(processed) :
          /\ processed[k].index = k
          /\ processed[k].outcome \in {"skipped", "error", "ok"}
    /\ ~Aborted

\* a batch whose first article failed (no result, missing id or failed
\* summary-attach request) and whose second was attempted and went through
C12_Witness ==
    /\ Len(processed) >= 2
    /\ processed[1].outcome \in {"skipped", "error"}
    /\ processed[2].outcome = "ok"

\* C14: processing one article always reaches a terminal outcome even if an
\* external call (per-chunk summarization, insight extraction, summary-attach
\* request) never responds, each call being bounded by a timeout: whenever
\* process_articles waits in a request that is not answered, a step is still
\* possible (the timeout expiring, handled as a failure of the request).
C14_UnansweredRequestTimesOut == Blocked => ENABLED NextSum


----------------------------------------------------------------------------
(* Properties of _chunk_text (SpecChunk) *)

Words == Split(text)

NoOversizeWord == \A j \in 1..Len(Words) : WordCost(Words[j]) <= 10 * max_length

RECURSIVE SumCost(_)
SumCost(ws) == IF ws = <<>> THEN 0 ELSE WordCost(Head(ws)) + SumCost(Tail(ws))

\* estimated cost of a chunk: the sum over its words of 1.3 * len(word), in tenths
ChunkCost(c) == SumCost(Split(c))

\* C6: when no single word's estimated cost exceeds the budget, joining the
\* returned chunks with single spaces and splitting on whitespace gives back
\* exactly the word sequence of the input text.
C6_RoundTrip ==
    (pc = "return" /\ NoOversizeWord) => Split(Join(Space, chunks)) = Words

C6_Witness ==
    /\ pc = "return" /\ NoOversizeWord
    /\ Len(chunks) >= 2 /\ Len(Words) >= 3
    /\ \E k \in 1..Len(chunks) : Len(Split(chunks[k])) >= 2

\* C7: for every text with at least one word, _chunk_text returns at least one
\* chunk, no returned chunk is the empty string, and every word whose cost
\* alone exceeds the budget is returned as a chunk made of exactly that word.
C7_NoEmptyChunk ==
    (pc = "return" /\ Words # <<>>) =>
        /\ Len(chunks) >= 1
        /\ \A k \in 1..Len(chunks) : chunks[k] # <<>>
        /\ \A j \in 1..Len(Words) :
              WordCost(Words[j]) > 10 * max_length =>
                  \E k \in 1..Len(chunks) : chunks[k] = Words[j]

\* C8: every returned chunk of more than one word has an estimated cost of at
\* most max_length, and the first word of every chunk after the first would
\* have pushed the preceding chunk's cost over max_length.
C8_BudgetAndGreedy ==
    pc = "return" =>
        /\ \A k \in 1..Len(chunks) :
              Len(Split(chunks[k])) > 1 => ChunkCost(chunks[k]) <= 10 * max_length
        /\ \A k \in 2..Len(chunks) :
              ChunkCost(chunks[k-1]) + WordCost(Split(chunks[k])[1]) > 10 * max_length

C8_Witness ==
    /\ pc = "return" /\ Len(chunks) >= 2
    /\ \E k \in 1..Len(chunks) : Len(Split(chunks[k])) > 1

====
